---- MODULE Spec2Model ----
(***************************************************************************)
(* Model of the burst_models package: the compound-Poisson engine          *)
(* pmf_total_compound, the mixed-Poisson burst-size law, the method-of-    *)
(* moments estimator and the two model classes PoissonBurstModel and       *)
(* NegBinBurstModel.                                                       *)
(*                                                                         *)
(* Numbers.  A float is modelled by the exact rational it stands for, a    *)
(* pair <<n, d>> in lowest terms with d > 0; rounding is not modelled.     *)
(* The IEEE specials that numpy's float64 division produces are the pairs  *)
(* with d = 0: <<0,0>> is NaN, <<1,0>> is +inf, <<-1,0>> is -inf.          *)
(*                                                                         *)
(* Poisson weights.  scipy's poisson.pmf(b, lam) = exp(-lam) * lam^b / b!. *)
(* exp(-lam) is irrational, so every value that carries a Poisson weight   *)
(* is kept as its rational multiple of exp(-lam): poisson_pmf(b, lam) is   *)
(* lam^b / b!, and the accumulator p of pmf_total_compound stands for      *)
(* exp(-lam_b) * p.                                                        *)
(***************************************************************************)
EXTENDS Integers, Sequences, FiniteSets

VARIABLES
    \* ---- one activation of pmf_total_compound (utils.py 41-71)
    pc,        \* "idle" | "loop" | "conv" | "done"
    x,         \* argument x
    pmf_burst, \* argument pmf_burst, tabulated on 0..MaxX
    k_on,      \* argument k_on
    L,         \* argument L
    max_bursts,\* argument max_bursts
    lam_b,     \* local lam_b
    b,         \* outer loop variable
    p,         \* accumulator p
    pmf_sum,   \* local array pmf_sum (index 0..x), << >> before it is allocated
    step,      \* iterations of `for _ in range(b)` done so far
    \* ---- the objects and the last call made on the package's interface
    pm,        \* the PoissonBurstModel instance
    nb,        \* the NegBinBurstModel instance
    call       \* the last call: operation, arguments, outcome

cvars == <<pc, x, pmf_burst, k_on, L, max_bursts, lam_b, b, p, pmf_sum, step>>
avars == <<pm, nb, call>>
vars == <<pc, x, pmf_burst, k_on, L, max_bursts, lam_b, b, p, pmf_sum, step,
          pm, nb, call>>

----------------------------------------------------------------------------
(* Bounds of the model *)

MaxX == 2
MaxBursts == 3

----------------------------------------------------------------------------
(* Float arithmetic on exact rationals *)

Abs(n) == IF n < 0 THEN -n ELSE n

RECURSIVE GCD(_, _)
GCD(m, n) == IF n = 0 THEN m ELSE GCD(n, m % n)

LCM(m, n) == (m \div GCD(m, n)) * n

Norm(n, d) == LET g == GCD(Abs(n), d) IN <<n \div g, d \div g>>

Zero == <<0, 1>>
One == <<1, 1>>
NaN == <<0, 0>>

Int2R(n) == <<n, 1>>
IsFinite(a) == a[2] > 0
IsNaN(a) == a = NaN

RAdd(a, c) == LET l == LCM(a[2], c[2])
              IN Norm(a[1] * (l \div a[2]) + c[1] * (l \div c[2]), l)
RNeg(a) == <<-a[1], a[2]>>
RSub(a, c) == RAdd(a, RNeg(c))
RMul(a, c) == LET g1 == GCD(Abs(a[1]), c[2])
                  g2 == GCD(Abs(c[1]), a[2])
              IN Norm((a[1] \div g1) * (c[1] \div g2), (a[2] \div g2) * (c[2] \div g1))
\* a / c for c # 0
RDiv(a, c) == IF c[1] > 0 THEN RMul(a, <<c[2], c[1]>>)
                          ELSE RMul(a, <<-c[2], -c[1]>>)
RLe(a, c) == LET l == LCM(a[2], c[2])
             IN a[1] * (l \div a[2]) <= c[1] * (l \div c[2])
RLt(a, c) == RLe(a, c) /\ a # c

\* a ** n for an integer n >= 0; Python gives 0.0 ** 0 = 1.0
RECURSIVE RPow(_, _)
RPow(a, n) == IF n = 0 THEN One ELSE RMul(a, RPow(a, n - 1))

\* math.factorial
RECURSIVE factorial(_)
factorial(n) == IF n = 0 THEN 1 ELSE n * factorial(n - 1)

----------------------------------------------------------------------------
(* pmf_total_compound *)

\* poisson.pmf(b, lam_b), in units of exp(-lam_b)
poisson_pmf(bb, lam) == RDiv(RPow(lam, bb), Int2R(factorial(bb)))

\* mutant: np.ones(x + 1) in place of np.zeros(x + 1)
Delta0_Ones(xx) == [i \in 0..xx |-> One]

\* np.zeros(x + 1) followed by pmf_sum[0] = 1.0
Delta0(xx) == [i \in 0..xx |-> IF i = 0 THEN One ELSE Zero]

\* mutant: range(x - i) in place of range(x - i + 1)
RECURSIVE LoopJ_OffByOne(_, _, _, _, _, _)
LoopJ_OffByOne(new, ps, pb, xx, i, j) ==
    IF j >= xx - i THEN new
    ELSE LoopJ_OffByOne([new EXCEPT ![i + j] = RAdd(@, RMul(ps[i], pb[j]))],
                        ps, pb, xx, i, j + 1)

\* for j in range(x - i + 1): new[i + j] += pmf_sum[i] * pmf_burst(j)
RECURSIVE LoopJ(_, _, _, _, _, _)
LoopJ(new, ps, pb, xx, i, j) ==
    IF j >= xx - i + 1 THEN new
    ELSE LoopJ([new EXCEPT ![i + j] = RAdd(@, RMul(ps[i], pb[j]))],
               ps, pb, xx, i, j + 1)

\* mutant: range(1, x + 1) in place of range(x + 1)
RECURSIVE LoopI_SkipsZero(_, _, _, _, _)
LoopI_SkipsZero(new, ps, pb, xx, i) ==
    IF i >= xx + 1 THEN new
    ELSE LoopI_SkipsZero(IF i = 0 THEN new ELSE LoopJ(new, ps, pb, xx, i, 0),
                         ps, pb, xx, i + 1)

\* for i in range(x + 1): ...
RECURSIVE LoopI(_, _, _, _, _)
LoopI(new, ps, pb, xx, i) ==
    IF i >= xx + 1 THEN new
    ELSE LoopI(LoopJ(new, ps, pb, xx, i, 0), ps, pb, xx, i + 1)

\* mutant: new starts as a copy of pmf_sum in place of np.zeros(x + 1)
Convolve_NoReset(ps, pb, xx) == LoopI(ps, ps, pb, xx, 0)

\* one iteration of `for _ in range(b)`: the new value of pmf_sum
Convolve(ps, pb, xx) == LoopI([i \in 0..xx |-> Zero], ps, pb, xx, 0)

\* the whole `for _ in range(b)` loop, n iterations from ps
RECURSIVE ConvLoop(_, _, _, _)
ConvLoop(ps, pb, xx, n) ==
    IF n = 0 THEN ps ELSE ConvLoop(Convolve(ps, pb, xx), pb, xx, n - 1)

\* the value added to p by the iteration of the outer loop for bb
Term(bb, xx, pb, lam) ==
    IF bb = 0 THEN RMul(poisson_pmf(bb, lam), IF xx = 0 THEN One ELSE Zero)
    ELSE RMul(poisson_pmf(bb, lam), ConvLoop(Delta0(xx), pb, xx, bb)[xx])

\* for b in range(0, max_bursts + 1): p += ...
RECURSIVE LoopB(_, _, _, _, _, _)
LoopB(pp, bb, xx, pb, lam, mb) ==
    IF bb >= mb + 1 THEN pp
    ELSE LoopB(RAdd(pp, Term(bb, xx, pb, lam)), bb + 1, xx, pb, lam, mb)

\* the function as a whole: its return value (in units of exp(-k_on*L))
pmf_total_compound(xx, pb, kon, len, mb) == LoopB(Zero, 0, xx, pb, RMul(kon, len), mb)

\* Inputs of the step-by-step activation
PmfVals == {Zero, <<1, 4>>, <<1, 2>>, One}
KonVals == {<<1, 2>>, One}
LVals == {One, <<2, 1>>}

NoModel == [live |-> FALSE]
NoCall == [op |-> "none"]

InitCompound ==
    /\ pc = "loop"
    /\ x \in 0..MaxX
    /\ pmf_burst \in [0..MaxX -> PmfVals]
    /\ k_on \in KonVals
    /\ L \in LVals
    /\ max_bursts \in 0..MaxBursts
    /\ lam_b = RMul(k_on, L)
    /\ b = 0
    /\ p = Zero
    /\ pmf_sum = << >>
    /\ step = 0
    /\ pm = NoModel
    /\ nb = NoModel
    /\ call = NoCall

\* b == 0 branch of the outer loop body
BurstZero ==
    /\ pc = "loop"
    /\ b < max_bursts + 1
    /\ b = 0
    /\ p' = RAdd(p, RMul(poisson_pmf(b, lam_b), IF x = 0 THEN One ELSE Zero))
    /\ b' = b + 1
    /\ UNCHANGED <<pc, x, pmf_burst, k_on, L, max_bursts, lam_b, pmf_sum, step>>
    /\ UNCHANGED avars

\* else branch: allocate pmf_sum and enter the inner loop
BeginConv ==
    /\ pc = "loop"
    /\ b < max_bursts + 1
    /\ b # 0
    /\ pmf_sum' = Delta0(x)
    /\ step' = 0
    /\ pc' = "conv"
    /\ UNCHANGED <<x, pmf_burst, k_on, L, max_bursts, lam_b, b, p>>
    /\ UNCHANGED avars

\* one iteration of `for _ in range(b)`
ConvStep ==
    /\ pc = "conv"
    /\ step < b
    /\ pmf_sum' = Convolve(pmf_sum, pmf_burst, x)
    /\ step' = step + 1
    /\ UNCHANGED <<pc, x, pmf_burst, k_on, L, max_bursts, lam_b, b, p>>
    /\ UNCHANGED avars

\* p += pb * pmf_sum[x], then the next b
Accumulate ==
    /\ pc = "conv"
    /\ step = b
    /\ p' = RAdd(p, RMul(poisson_pmf(b, lam_b), pmf_sum[x]))
    /\ b' = b + 1
    /\ pc' = "loop"
    /\ UNCHANGED <<x, pmf_burst, k_on, L, max_bursts, lam_b, pmf_sum, step>>
    /\ UNCHANGED avars

\* return p
Return ==
    /\ pc = "loop"
    /\ b >= max_bursts + 1
    /\ pc' = "done"
    /\ UNCHANGED <<x, pmf_burst, k_on, L, max_bursts, lam_b, b, p, pmf_sum, step>>
    /\ UNCHANGED avars

NextCompound == BurstZero \/ BeginConv \/ ConvStep \/ Accumulate \/ Return

SpecCompound == InitCompound /\ [][NextCompound]_vars

----------------------------------------------------------------------------
(* numpy float64 arithmetic: a division by zero gives nan or inf (with a   *)
(* RuntimeWarning), it does not raise                                      *)

Sign(n) == IF n > 0 THEN 1 ELSE IF n < 0 THEN -1 ELSE 0

NpDiv(a, c) ==
    IF IsNaN(a) \/ IsNaN(c) THEN NaN
    ELSE IF IsFinite(a) /\ IsFinite(c)
         THEN IF c[1] = 0
              THEN (IF a[1] = 0 THEN NaN ELSE <<Sign(a[1]), 0>>)
              ELSE RDiv(a, c)
    ELSE IF IsFinite(a) THEN Zero
    ELSE IF IsFinite(c) THEN (IF c[1] < 0 THEN <<-a[1], 0>> ELSE a)
    ELSE NaN

NpMul(a, c) ==
    IF IsNaN(a) \/ IsNaN(c) THEN NaN
    ELSE IF IsFinite(a) /\ IsFinite(c) THEN RMul(a, c)
    ELSE IF a[1] = 0 \/ c[1] = 0 THEN NaN
    ELSE <<Sign(a[1]) * Sign(c[1]), 0>>

NpSub(a, c) ==
    IF IsNaN(a) \/ IsNaN(c) THEN NaN
    ELSE IF IsFinite(a) /\ IsFinite(c) THEN RSub(a, c)
    ELSE IF IsFinite(c) THEN a
    ELSE IF IsFinite(a) THEN <<-c[1], 0>>
    ELSE IF a = c THEN NaN ELSE a

----------------------------------------------------------------------------
(* utils.py: pmf_mixed_poisson and method_of_moments_poisson *)

\* lam = rate / k_off
mixed_lam(rate, koff) == RDiv(rate, koff)

\* mutant: rate in place of k_off in the numerator
mixed_p0_Swapped(rate, koff) == RDiv(rate, RAdd(rate, koff))

\* p0 = k_off / (rate + k_off)
mixed_p0(rate, koff) == RDiv(koff, RAdd(rate, koff))

pmf_mixed_poisson(k, rate, koff) ==
    LET lam == mixed_lam(rate, koff)
        p0 == mixed_p0(rate, koff)
    IN RMul(RMul(RDiv(RPow(lam, k), Int2R(factorial(k))), p0),
            RPow(RDiv(rate, RAdd(rate, koff)), k))

RECURSIVE SumSeq(_, _)
SumSeq(xs, n) == IF n = 0 THEN 0 ELSE xs[n] + SumSeq(xs, n - 1)

\* np.mean(x)
np_mean(xs) == NpDiv(Int2R(SumSeq(xs, Len(xs))), Int2R(Len(xs)))

RECURSIVE SumSqDev(_, _, _)
SumSqDev(xs, m, n) ==
    IF n = 0 THEN Zero
    ELSE LET d == RSub(Int2R(xs[n]), m)
         IN RAdd(RMul(d, d), SumSqDev(xs, m, n - 1))

\* np.var(x, ddof=1)
np_var_ddof1(xs) == NpDiv(SumSqDev(xs, np_mean(xs), Len(xs)), Int2R(Len(xs) - 1))

\* the outcome of a call: a returned value or a raised exception
Returned(v) == [status |-> "return", value |-> v]
Raised(e) == [status |-> "raise", value |-> e]

\* mutant: the divisions raise on a zero divisor, as Python floats do
method_of_moments_poisson_Raising(xs, len) ==
    LET mean_x == np_mean(xs)
        var_x == np_var_ddof1(xs)
        lambda_hat == NpSub(NpDiv(var_x, mean_x), One)
        k_on_hat == NpDiv(mean_x, NpMul(lambda_hat, len))
    IN IF mean_x = Zero \/ NpMul(lambda_hat, len) = Zero
       THEN Raised("ZeroDivisionError")
       ELSE Returned(<<lambda_hat, k_on_hat>>)

method_of_moments_poisson(xs, len) ==
    LET mean_x == np_mean(xs)
        var_x == np_var_ddof1(xs)
        lambda_hat == NpSub(NpDiv(var_x, mean_x), One)
        k_on_hat == NpDiv(mean_x, NpMul(lambda_hat, len))
    IN Returned(<<lambda_hat, k_on_hat>>)

----------------------------------------------------------------------------
(* poisson_model.py: PoissonBurstModel *)

\* mutant: lambda_b = p * r, the division by k_off left out
PoissonBurstModel_NoKoff(kon, koff, r, pd) ==
    [live |-> TRUE, k_on |-> kon, k_off |-> koff, r |-> r, p |-> pd,
     lambda_b |-> RMul(pd, r)]

\* __init__
PoissonBurstModel(kon, koff, r, pd) ==
    [live |-> TRUE, k_on |-> kon, k_off |-> koff, r |-> r, p |-> pd,
     lambda_b |-> RDiv(RMul(pd, r), koff)]

Poisson_burst_size_pmf_of(self, k) == pmf_mixed_poisson(k, RMul(self.p, self.r), self.k_off)

Poisson_total_transcripts_pmf_of(self, xx, len, mb) ==
    pmf_total_compound(xx, [j \in 0..xx |-> Poisson_burst_size_pmf_of(self, j)],
                       self.k_on, len, mb)

Poisson_first_moments_of(self, len) ==
    LET E_N == self.lambda_b
        Var_N == RAdd(self.lambda_b, RPow(self.lambda_b, 2))
        E_B == RMul(self.k_on, len)
        mean == RMul(E_B, E_N)
        var == RAdd(RMul(E_B, Var_N), RMul(E_B, RPow(E_N, 2)))
        index == RDiv(var, mean)
    IN <<mean, var, index>>

Poisson_fit_moments_of(data, len) == method_of_moments_poisson(data, len)

----------------------------------------------------------------------------
(* negbin_model.py: NegBinBurstModel.  alpha takes integer values here, so *)
(* that p**alpha is rational and comb is the ordinary binomial coefficient *)

\* __init__
NegBinBurstModel(kon, mub, alpha) ==
    [live |-> TRUE, k_on |-> kon, mu_b |-> mub, alpha |-> alpha]

\* scipy.special.comb(N, k) for integers N >= k >= 0
comb(n, k) == factorial(n) \div (factorial(k) * factorial(n - k))

NegBin_burst_size_pmf_of(self, k) ==
    LET pp == RDiv(self.alpha, RAdd(self.alpha, self.mu_b))
    IN RMul(RMul(Int2R(comb(k + self.alpha[1] - 1, k)), RPow(pp, self.alpha[1])),
            RPow(RSub(One, pp), k))

NegBin_total_transcripts_pmf_of(self, xx, len, mb) ==
    pmf_total_compound(xx, [j \in 0..xx |-> NegBin_burst_size_pmf_of(self, j)],
                       self.k_on, len, mb)

\* mutant: the Var[B]*E[N]^2 term E_B * E_N**2 left out of var
NegBin_first_moments_of_NoSquare(self, len) ==
    LET E_N == self.mu_b
        Var_N == RAdd(self.mu_b, RDiv(RPow(self.mu_b, 2), self.alpha))
        E_B == RMul(self.k_on, len)
        mean == RMul(E_B, E_N)
        var == RMul(E_B, Var_N)
        index == RDiv(var, mean)
    IN <<mean, var, index>>

NegBin_first_moments_of(self, len) ==
    LET E_N == self.mu_b
        Var_N == RAdd(self.mu_b, RDiv(RPow(self.mu_b, 2), self.alpha))
        E_B == RMul(self.k_on, len)
        mean == RMul(E_B, E_N)
        var == RAdd(RMul(E_B, Var_N), RMul(E_B, RPow(E_N, 2)))
        index == RDiv(var, mean)
    IN <<mean, var, index>>

\* mutant: delegates to the estimator, as PoissonBurstModel.fit_moments does
NegBin_fit_moments_of_Delegates(data, len) == method_of_moments_poisson(data, len)

NegBin_fit_moments_of(data, len) == Raised("NotImplementedError")

----------------------------------------------------------------------------
(* The package's interface: constructions and calls, one at a time *)

MaxK == 3
MaxLen == 2
MaxCount == 2

KoffVals == {One, <<2, 1>>}
RVals == {<<2, 1>>, <<4, 1>>}
PVals == {<<1, 2>>, One}
MuVals == {One, <<2, 1>>}
AlphaVals == {One, <<3, 1>>}
RateVals == {Zero, One, <<2, 1>>}
ApiLVals == {<<1, 2>>, One, <<2, 1>>}
ApiXVals == 0..2
ApiBurstVals == 0..2
DataVals == UNION {[1..n -> 0..MaxCount] : n \in 1..MaxLen}

Called(op, args, outcome) ==
    [op |-> op, args |-> args, status |-> outcome.status, value |-> outcome.value]

InitApi ==
    /\ pc = "idle"
    /\ x = 0
    /\ pmf_burst = << >>
    /\ k_on = Zero
    /\ L = Zero
    /\ max_bursts = 0
    /\ lam_b = Zero
    /\ b = 0
    /\ p = Zero
    /\ pmf_sum = << >>
    /\ step = 0
    /\ pm = NoModel
    /\ nb = NoModel
    /\ call = NoCall

Poisson_init ==
    /\ call = NoCall
    /\ \E kon \in KonVals, koff \in KoffVals, r \in RVals, pd \in PVals :
          /\ pm' = PoissonBurstModel(kon, koff, r, pd)
          /\ call' = Called("PoissonBurstModel.__init__", <<kon, koff, r, pd>>,
                            Returned("None"))
    /\ UNCHANGED nb
    /\ UNCHANGED cvars

Poisson_burst_size_pmf ==
    /\ call = NoCall
    /\ pm.live
    /\ \E k \in 0..MaxK :
          call' = Called("PoissonBurstModel.burst_size_pmf", <<k>>,
                         Returned(Poisson_burst_size_pmf_of(pm, k)))
    /\ UNCHANGED <<pm, nb>>
    /\ UNCHANGED cvars

Poisson_total_transcripts_pmf ==
    /\ call = NoCall
    /\ pm.live
    /\ \E xx \in ApiXVals, len \in LVals, mb \in ApiBurstVals :
          call' = Called("PoissonBurstModel.total_transcripts_pmf", <<xx, len, mb>>,
                         Returned(Poisson_total_transcripts_pmf_of(pm, xx, len, mb)))
    /\ UNCHANGED <<pm, nb>>
    /\ UNCHANGED cvars

Poisson_first_moments ==
    /\ call = NoCall
    /\ pm.live
    /\ \E len \in ApiLVals :
          call' = Called("PoissonBurstModel.first_moments", <<len>>,
                         Returned(Poisson_first_moments_of(pm, len)))
    /\ UNCHANGED <<pm, nb>>
    /\ UNCHANGED cvars

\* a staticmethod: callable with or without an instance
Poisson_fit_moments ==
    /\ call = NoCall
    /\ \E data \in DataVals, len \in LVals :
          call' = Called("PoissonBurstModel.fit_moments", <<data, len>>,
                         Poisson_fit_moments_of(data, len))
    /\ UNCHANGED <<pm, nb>>
    /\ UNCHANGED cvars

NegBin_init ==
    /\ call = NoCall
    /\ \E kon \in KonVals, mub \in MuVals, alpha \in AlphaVals :
          /\ nb' = NegBinBurstModel(kon, mub, alpha)
          /\ call' = Called("NegBinBurstModel.__init__", <<kon, mub, alpha>>,
                            Returned("None"))
    /\ UNCHANGED pm
    /\ UNCHANGED cvars

NegBin_burst_size_pmf ==
    /\ call = NoCall
    /\ nb.live
    /\ \E k \in 0..MaxK :
          call' = Called("NegBinBurstModel.burst_size_pmf", <<k>>,
                         Returned(NegBin_burst_size_pmf_of(nb, k)))
    /\ UNCHANGED <<pm, nb>>
    /\ UNCHANGED cvars

NegBin_total_transcripts_pmf ==
    /\ call = NoCall
    /\ nb.live
    /\ \E xx \in ApiXVals, len \in LVals, mb \in ApiBurstVals :
          call' = Called("NegBinBurstModel.total_transcripts_pmf", <<xx, len, mb>>,
                         Returned(NegBin_total_transcripts_pmf_of(nb, xx, len, mb)))
    /\ UNCHANGED <<pm, nb>>
    /\ UNCHANGED cvars

NegBin_first_moments ==
    /\ call = NoCall
    /\ nb.live
    /\ \E len \in ApiLVals :
          call' = Called("NegBinBurstModel.first_moments", <<len>>,
                         Returned(NegBin_first_moments_of(nb, len)))
    /\ UNCHANGED <<pm, nb>>
    /\ UNCHANGED cvars

\* a staticmethod: callable with or without an instance
NegBin_fit_moments ==
    /\ call = NoCall
    /\ \E data \in DataVals, len \in LVals :
          call' = Called("NegBinBurstModel.fit_moments", <<data, len>>,
                         NegBin_fit_moments_of(data, len))
    /\ UNCHANGED <<pm, nb>>
    /\ UNCHANGED cvars

Call_pmf_mixed_poisson ==
    /\ call = NoCall
    /\ \E k \in 0..MaxK, rate \in RateVals, koff \in KoffVals :
          call' = Called("pmf_mixed_poisson", <<k, rate, koff>>,
                         Returned(pmf_mixed_poisson(k, rate, koff)))
    /\ UNCHANGED <<pm, nb>>
    /\ UNCHANGED cvars

Call_method_of_moments_poisson ==
    /\ call = NoCall
    /\ \E xs \in DataVals, len \in LVals :
          call' = Called("method_of_moments_poisson", <<xs, len>>,
                         method_of_moments_poisson(xs, len))
    /\ UNCHANGED <<pm, nb>>
    /\ UNCHANGED cvars

\* the caller takes the outcome of the call and goes on
Resume ==
    /\ call # NoCall
    /\ call' = NoCall
    /\ UNCHANGED <<pm, nb>>
    /\ UNCHANGED cvars

NextApi ==
    \/ Poisson_init
    \/ Poisson_burst_size_pmf
    \/ Poisson_total_transcripts_pmf
    \/ Poisson_first_moments
    \/ Poisson_fit_moments
    \/ NegBin_init
    \/ NegBin_burst_size_pmf
    \/ NegBin_total_transcripts_pmf
    \/ NegBin_first_moments
    \/ NegBin_fit_moments
    \/ Call_pmf_mixed_poisson
    \/ Call_method_of_moments_poisson
    \/ Resume

SpecApi == InitApi /\ [][NextApi]_vars

----------------------------------------------------------------------------
(* Properties of pmf_total_compound *)

\* sum of the entries f[lo..hi] of an array of rationals
RECURSIVE SumRange(_, _, _)
SumRange(f, lo, hi) == IF lo > hi THEN Zero ELSE RAdd(f[lo], SumRange(f, lo + 1, hi))

\* product of the burst probabilities of a tuple of burst sizes
RECURSIVE ProdTuple(_, _, _)
ProdTuple(pb, t, n) == IF n = 0 THEN One ELSE RMul(pb[t[n]], ProdTuple(pb, t, n - 1))

RECURSIVE SumTuple(_, _)
SumTuple(t, n) == IF n = 0 THEN 0 ELSE t[n] + SumTuple(t, n - 1)

\* the n-tuples of non-negative integers that add up to xx
TuplesAt(n, xx) == {t \in [1..n -> 0..xx] : SumTuple(t, n) = xx}

RECURSIVE SumProd(_, _, _)
SumProd(pb, S, n) ==
    IF S = {} THEN Zero
    ELSE LET t == CHOOSE u \in S : TRUE
         IN RAdd(ProdTuple(pb, t, n), SumProd(pb, S \ {t}, n))

\* the untruncated n-fold convolution of pb at xx
UntruncatedConv(pb, n, xx) == SumProd(pb, TuplesAt(n, xx), n)

RECURSIVE CompoundSum(_, _, _, _)
CompoundSum(pb, lam, xx, n) ==
    IF n < 0 THEN Zero
    ELSE RAdd(CompoundSum(pb, lam, xx, n - 1),
              RMul(RDiv(RPow(lam, n), Int2R(factorial(n))), UntruncatedConv(pb, n, xx)))

\* sum_{n=0..N} lam^n / n!, a lower bound of exp(lam) for lam >= 0
RECURSIVE ExpLower(_, _)
ExpLower(lam, n) ==
    IF n < 0 THEN Zero
    ELSE RAdd(ExpLower(lam, n - 1), RDiv(RPow(lam, n), Int2R(factorial(n))))

PointMassAtOne == \A k \in 0..MaxX : pmf_burst[k] = (IF k = 1 THEN One ELSE Zero)

\* C1: with burst_pmf the point mass at 1 and max_bursts >= x, the b-fold
\* convolution at x is 1 when b = x and 0 for every other b, and the value
\* returned is exactly the Poisson weight P(B = x) of mean k_on*L.
C1_PointMassGivesPoisson ==
    (PointMassAtOne /\ max_bursts >= x) =>
        /\ (pc = "conv" /\ step = b) => pmf_sum[x] = (IF b = x THEN One ELSE Zero)
        /\ pc = "done" => p = RDiv(RPow(RMul(k_on, L), x), Int2R(factorial(x)))

C1_Witness ==
    /\ pc = "done"
    /\ PointMassAtOne
    /\ x = 2
    /\ max_bursts > x
    /\ p = RDiv(RPow(RMul(k_on, L), 2), <<2, 1>>)

\* C2: with burst_pmf(0) = 0 and x = 0, the b = 0 term leaves p at
\* P(B = 0) = exp(-k_on*L) (the rational 1 in units of exp(-k_on*L)), every
\* term with b >= 1 adds 0, and that is the value returned for any max_bursts.
C2_ZeroTotalIsNoBurst ==
    (x = 0 /\ pmf_burst[0] = Zero) =>
        /\ b >= 1 => p = One
        /\ (pc = "conv" /\ step >= 1) => pmf_sum[0] = Zero
        /\ pc = "done" => p = One

C2_Witness ==
    /\ pc = "done"
    /\ x = 0
    /\ pmf_burst[0] = Zero
    /\ pmf_burst[1] = One
    /\ pmf_burst[2] = One
    /\ max_bursts >= 2
    /\ p = One

ValidPmf ==
    /\ \A k \in 0..MaxX : RLe(Zero, pmf_burst[k])
    /\ RLe(SumRange(pmf_burst, 0, MaxX), One)

\* C3: for valid inputs (max_bursts >= 1, burst_pmf non-negative of total
\* mass at most 1) every entry of pmf_sum and its total over 0..x stay in
\* [0, 1] after every convolution step, and the value returned lies in
\* [0, 1]: 0 <= p and p <= sum_{n<=max_bursts} lam_b^n/n! <= exp(lam_b), p
\* being the returned value in units of exp(-lam_b).
C3_ResultIsProbability ==
    (ValidPmf /\ max_bursts >= 1) =>
        /\ pc = "conv" =>
              /\ \A i \in 0..x : RLe(Zero, pmf_sum[i]) /\ RLe(pmf_sum[i], One)
              /\ RLe(SumRange(pmf_sum, 0, x), One)
        /\ RLe(Zero, p)
        /\ RLe(p, ExpLower(lam_b, max_bursts))

C3_Witness ==
    /\ pc = "done"
    /\ ValidPmf
    /\ max_bursts >= 2
    /\ x = 2
    /\ pmf_burst[0] = <<1, 4>>
    /\ pmf_burst[1] = <<1, 2>>
    /\ pmf_burst[2] = <<1, 4>>
    /\ RLt(Zero, p)
    /\ RLt(p, ExpLower(lam_b, max_bursts))

\* C10: the value returned is the sum over b = 0..max_bursts (max_bursts+1
\* terms) of P(B = b) times the untruncated b-fold convolution of burst_pmf at
\* x (the sum over the b-tuples of sizes adding up to x of the product of
\* their probabilities): dropping the mass above x changes nothing at x.
C10_TruncationIsExact ==
    pc = "done" =>
        /\ b = max_bursts + 1
        /\ p = CompoundSum(pmf_burst, RMul(k_on, L), x, max_bursts)

C10_Witness ==
    /\ pc = "done"
    /\ x >= 1
    /\ max_bursts >= 2
    /\ \A k \in 0..x : pmf_burst[k] # Zero
    /\ p = CompoundSum(pmf_burst, RMul(k_on, L), x, max_bursts)
    /\ p # Zero

----------------------------------------------------------------------------
(* Properties of the model classes and of the utilities *)

\* C4: first_moments(L) returns (mean, var, index) with mean = (k_on*L)*E[N],
\* var = (k_on*L)*(Var[N] + E[N]^2) and index = var/mean, where E[N] = mu_b,
\* Var[N] = mu_b + mu_b^2/alpha for NegBinBurstModel and E[N] = lambda_b,
\* Var[N] = lambda_b + lambda_b^2 for PoissonBurstModel; NegBinBurstModel(0.5,
\* 2.0, 3.0) at L = 1 gives mean 1 and var 11/3, PoissonBurstModel(0.5, 2.0,
\* 4.0, 0.5) at L = 1 gives mean 1/2 and var 3/2.
C4_FirstMoments ==
    /\ call.op = "NegBinBurstModel.first_moments" =>
          LET len == call.args[1]
              EN == nb.mu_b
              VarN == RAdd(nb.mu_b, RDiv(RMul(nb.mu_b, nb.mu_b), nb.alpha))
              mean == RMul(RMul(nb.k_on, len), EN)
              var == RMul(RMul(nb.k_on, len), RAdd(VarN, RMul(EN, EN)))
          IN /\ call.status = "return"
             /\ call.value = <<mean, var, RDiv(var, mean)>>
             /\ (nb.k_on = <<1, 2>> /\ nb.mu_b = <<2, 1>> /\ nb.alpha = <<3, 1>>
                 /\ len = One) => (call.value[1] = One /\ call.value[2] = <<11, 3>>)
    /\ call.op = "PoissonBurstModel.first_moments" =>
          LET len == call.args[1]
              EN == pm.lambda_b
              VarN == RAdd(pm.lambda_b, RMul(pm.lambda_b, pm.lambda_b))
              mean == RMul(RMul(pm.k_on, len), EN)
              var == RMul(RMul(pm.k_on, len), RAdd(VarN, RMul(EN, EN)))
          IN /\ call.status = "return"
             /\ call.value = <<mean, var, RDiv(var, mean)>>
             /\ (pm.k_on = <<1, 2>> /\ pm.k_off = <<2, 1>> /\ pm.r = <<4, 1>>
                 /\ pm.p = <<1, 2>> /\ len = One) =>
                    (call.value[1] = <<1, 2>> /\ call.value[2] = <<3, 2>>)

C4_Witness ==
    /\ call.op = "NegBinBurstModel.first_moments"
    /\ nb.k_on = <<1, 2>> /\ nb.mu_b = <<2, 1>> /\ nb.alpha = <<3, 1>>
    /\ call.args = <<One>>
    /\ call.value = <<One, <<11, 3>>, <<11, 3>>>>
    /\ pm.live /\ pm.lambda_b = One

RECURSIVE MixedPartialSum(_, _, _)
MixedPartialSum(K, rate, koff) ==
    IF K < 0 THEN Zero
    ELSE RAdd(MixedPartialSum(K - 1, rate, koff), pmf_mixed_poisson(K, rate, koff))

\* C5: the burst-size PMF of PoissonBurstModel, pmf_mixed_poisson(k, rate,
\* k_off), is a probability mass function: every value is >= 0 and the values
\* add up to 1 over k >= 0, so that no partial sum over k = 0..K exceeds 1.
C5_MixedPoissonIsPmf ==
    /\ call.op = "pmf_mixed_poisson" =>
          /\ RLe(Zero, call.value)
          /\ RLe(MixedPartialSum(call.args[1], call.args[2], call.args[3]), One)
    /\ call.op = "PoissonBurstModel.burst_size_pmf" =>
          /\ RLe(Zero, call.value)
          /\ RLe(MixedPartialSum(call.args[1], RMul(pm.p, pm.r), pm.k_off), One)

C6_LambdaAgrees ==
    pm.live => /\ pm.lambda_b = mixed_lam(RMul(pm.p, pm.r), pm.k_off)
               /\ pm.lambda_b = RDiv(RMul(pm.p, pm.r), pm.k_off)

C6_OnlyInitWrites ==
    call'.op # "PoissonBurstModel.__init__" => pm' = pm

\* C6: in every state reached by constructing a PoissonBurstModel and calling
\* its operations in any order, the stored lambda_b equals p*r/k_off, the
\* rate/k_off that burst_size_pmf computes from p*r and k_off; and no operation
\* other than construction changes k_on, k_off, r, p or lambda_b.
C6_LambdaInvariant == [] C6_LambdaAgrees /\ [][C6_OnlyInitWrites]_vars

C6_Witness ==
    /\ pm.live
    /\ call.op = "PoissonBurstModel.total_transcripts_pmf"
    /\ pm.p = <<1, 2>> /\ pm.r = <<4, 1>> /\ pm.k_off = <<2, 1>>
    /\ pm.lambda_b = One

MeanIsZero(xs) == \A i \in 1..Len(xs) : xs[i] = 0

IsEstimatorCall ==
    call.op \in {"method_of_moments_poisson", "PoissonBurstModel.fit_moments"}

\* C7 as stated: when the sample mean of the data is 0 (every observed total
\* is 0), method_of_moments_poisson and PoissonBurstModel.fit_moments return no
\* pair: the division by the zero mean raises a division-by-zero error.
C7_ZeroMeanRaises ==
    (IsEstimatorCall /\ MeanIsZero(call.args[1])) => call.status = "raise"

\* C7 amended: when every observed total is 0, method_of_moments_poisson and
\* PoissonBurstModel.fit_moments raise nothing and return the pair (nan, nan):
\* the division of the numpy floats 0.0/0.0 gives nan, which propagates.
C7_ZeroMeanReturnsNaN ==
    (IsEstimatorCall /\ MeanIsZero(call.args[1])) =>
        /\ call.status = "return"
        /\ call.value = <<NaN, NaN>>

C7_Witness ==
    /\ call.op = "PoissonBurstModel.fit_moments"
    /\ call.args[1] = <<0, 0>>
    /\ call.status = "return"
    /\ call.value = <<NaN, NaN>>

C8_AlwaysRaises ==
    call.op = "NegBinBurstModel.fit_moments" =>
        /\ call.status = "raise"
        /\ call.value = "NotImplementedError"

C8_LeavesModels ==
    call'.op = "NegBinBurstModel.fit_moments" => (nb' = nb /\ pm' = pm)

\* C8: NegBinBurstModel.fit_moments(data, L) raises NotImplementedError for
\* every data and L, returns no value and leaves every model's fields as they
\* were, called on the class or on an instance, whatever calls came before.
C8_FitMomentsNotImplemented == [] C8_AlwaysRaises /\ [][C8_LeavesModels]_vars

C8_Witness ==
    /\ call.op = "NegBinBurstModel.fit_moments"
    /\ call.status = "raise"
    /\ nb.live
    /\ pm.live

\* C9: for rate = 0 and any k_off > 0, pmf_mixed_poisson(0, 0, k_off) = 1 and
\* pmf_mixed_poisson(k, 0, k_off) = 0 for every k > 0.
C9_ZeroRate ==
    (call.op = "pmf_mixed_poisson" /\ call.args[2] = Zero) =>
        /\ call.status = "return"
        /\ call.value = (IF call.args[1] = 0 THEN One ELSE Zero)

C9_Witness ==
    /\ call.op = "pmf_mixed_poisson"
    /\ call.args[2] = Zero
    /\ call.args[1] = MaxK
    /\ call.value = Zero

====
